---- MODULE Spec2Model ----
(***************************************************************************)
(* Model of .xavier/xavier_bridge.py: the command bridge that turns        *)
(* sys.argv into a call XavierCommands(cwd).execute(xavier_command, args)  *)
(* and prints the outcome.                                                 *)
(*                                                                         *)
(* Strings are sequences of one-character strings, so that                 *)
(* str.replace, ' '.join, json.loads and json.dumps are computed on the    *)
(* text itself.  Opaque texts (fixed messages, exception texts) are        *)
(* sequences of one piece.                                                 *)
(***************************************************************************)
EXTENDS Integers, Sequences, FiniteSets, TLC

(***************************************************************************)
(* Python values.  t is the type tag, s the text of a str / int / bool,    *)
(* items the elements of a list or the key/value pairs of a dict in        *)
(* insertion order.                                                        *)
(***************************************************************************)
PyNone == [t |-> "null", s |-> <<>>, items |-> <<>>]

PyStr(cs) == [t |-> "str", s |-> cs, items |-> <<>>]

PyInt(ds) == [t |-> "int", s |-> ds, items |-> <<>>]

PyTrue == [t |-> "bool", s |-> <<"t", "r", "u", "e">>, items |-> <<>>]

PyFalse == [t |-> "bool", s |-> <<"f", "a", "l", "s", "e">>, items |-> <<>>]

PyList(vs) == [t |-> "list", s |-> <<>>, items |-> vs]

PyDict(kvs) == [t |-> "dict", s |-> <<>>, items |-> kvs]

\* A non-empty Python set: a value json.dumps cannot serialize.
PySet == [t |-> "set", s |-> <<>>, items |-> <<>>]

\* args = {}
EmptyDict == PyDict(<<>>)

KV(k, v) == [k |-> k, val |-> v]

IsMapping(v) == v.t = "dict"

RECURSIVE IndexOfKey(_, _, _)
\* position of key k among the pairs kvs from position i on, 0 if absent
IndexOfKey(kvs, k, i) ==
    IF i > Len(kvs) THEN 0
    ELSE IF kvs[i].k = k THEN i
    ELSE IndexOfKey(kvs, k, i + 1)

\* 'k' in d
HasKey(d, k) == IndexOfKey(d.items, k, 1) # 0

\* d.get(k, default)
Get(d, k, default) ==
    LET i == IndexOfKey(d.items, k, 1)
    IN  IF i = 0 THEN default ELSE d.items[i].val

\* d[k] = v on the pair list of a dict: a repeated key keeps its first
\* position and takes the last value
DictSet(kvs, k, v) ==
    LET i == IndexOfKey(kvs, k, 1)
    IN  IF i = 0 THEN Append(kvs, KV(k, v))
        ELSE [kvs EXCEPT ![i] = KV(k, v)]

\* bool(v)
Truthy(v) ==
    CASE v.t = "null" -> FALSE
      [] v.t = "bool" -> v = PyTrue
      [] v.t = "int"  -> v.s # <<"0">>
      [] v.t = "str"  -> v.s # <<>>
      [] v.t = "list" -> v.items # <<>>
      [] v.t = "dict" -> v.items # <<>>
      [] OTHER        -> TRUE

\* str(v) inside an f-string, for the values an 'error' field takes
Str(v) ==
    CASE v.t = "null" -> <<"None">>
      [] v.t = "bool" -> IF v = PyTrue THEN <<"True">> ELSE <<"False">>
      [] OTHER        -> v.s

(***************************************************************************)
(* ' '.join(words)                                                         *)
(***************************************************************************)
RECURSIVE Join(_)
Join(words) ==
    IF Len(words) = 0 THEN <<>>
    ELSE IF Len(words) = 1 THEN words[1]
    ELSE words[1] \o <<" ">> \o Join(Tail(words))

(***************************************************************************)
(* json.loads on text over the characters                                  *)
(*   { } [ ] " : , space, digits, letters                                  *)
(* (no backslash, sign, fraction, exponent or control character).          *)
(* A parse result is [ok, val, pos]: pos is the index after the value.     *)
(***************************************************************************)
Digits == {"0", "1", "2", "3", "4", "5", "6", "7", "8", "9"}

ParseFail == [ok |-> FALSE, val |-> PyNone, pos |-> 0]

ParseOk(v, p) == [ok |-> TRUE, val |-> v, pos |-> p]

\* s[i:i+1]
At(s, i) == IF i >= 1 /\ i <= Len(s) THEN s[i] ELSE ""

\* the characters json skips between tokens
Whitespace == {" ", "\t", "\n", "\r"}

RECURSIVE SkipWs(_, _)
SkipWs(s, i) == IF At(s, i) \in Whitespace THEN SkipWs(s, i + 1) ELSE i

RECURSIVE StringEnd(_, _)
\* index of the closing quote of a string whose text starts at i; 0 if there
\* is none or a control character comes first (strict mode)
StringEnd(s, i) ==
    IF i > Len(s) THEN 0
    ELSE IF s[i] = "\"" THEN i
    ELSE IF s[i] \in {"\t", "\n", "\r"} THEN 0
    ELSE StringEnd(s, i + 1)

RECURSIVE DigitsEnd(_, _)
DigitsEnd(s, i) == IF At(s, i) \in Digits THEN DigitsEnd(s, i + 1) ELSE i

\* s[i:i+len(lit)] == lit
Match(s, i, lit) ==
    /\ i + Len(lit) - 1 <= Len(s)
    /\ SubSeq(s, i, i + Len(lit) - 1) = lit

RECURSIVE ParseValue(_, _)
RECURSIVE ParseMembers(_, _, _)
RECURSIVE ParseElements(_, _, _)

\* the pairs of an object; j is the index of the opening quote of a key
ParseMembers(s, j, acc) ==
    LET e == StringEnd(s, j + 1)
    IN  IF e = 0 THEN ParseFail
        ELSE
        LET key == SubSeq(s, j + 1, e - 1)
            p1  == SkipWs(s, e + 1)
        IN  IF At(s, p1) # ":" THEN ParseFail
            ELSE
            LET v == ParseValue(s, SkipWs(s, p1 + 1))
            IN  IF ~v.ok THEN ParseFail
                ELSE
                LET acc2 == DictSet(acc, key, v.val)
                    p3   == SkipWs(s, v.pos)
                IN  IF At(s, p3) = "}" THEN ParseOk(PyDict(acc2), p3 + 1)
                    ELSE IF At(s, p3) # "," THEN ParseFail
                    ELSE
                    LET p4 == SkipWs(s, p3 + 1)
                    IN  IF At(s, p4) # "\"" THEN ParseFail
                        ELSE ParseMembers(s, p4, acc2)

\* the elements of an array; j is the index where the next value starts
ParseElements(s, j, acc) ==
    LET v == ParseValue(s, j)
    IN  IF ~v.ok THEN ParseFail
        ELSE
        LET acc2 == Append(acc, v.val)
            p    == SkipWs(s, v.pos)
        IN  IF At(s, p) = "]" THEN ParseOk(PyList(acc2), p + 1)
            ELSE IF At(s, p) # "," THEN ParseFail
            ELSE ParseElements(s, SkipWs(s, p + 1), acc2)

\* the value that starts at index i
ParseValue(s, i) ==
    LET c == At(s, i)
    IN  CASE c = "\"" ->
               LET e == StringEnd(s, i + 1)
               IN  IF e = 0 THEN ParseFail
                   ELSE ParseOk(PyStr(SubSeq(s, i + 1, e - 1)), e + 1)
          [] c = "{" ->
               LET j == SkipWs(s, i + 1)
               IN  IF At(s, j) = "}" THEN ParseOk(EmptyDict, j + 1)
                   ELSE IF At(s, j) # "\"" THEN ParseFail
                   ELSE ParseMembers(s, j, <<>>)
          [] c = "[" ->
               LET j == SkipWs(s, i + 1)
               IN  IF At(s, j) = "]" THEN ParseOk(PyList(<<>>), j + 1)
                   ELSE ParseElements(s, j, <<>>)
          [] c = "n" /\ Match(s, i, <<"n", "u", "l", "l">>) ->
               ParseOk(PyNone, i + 4)
          [] c = "t" /\ Match(s, i, <<"t", "r", "u", "e">>) ->
               ParseOk(PyTrue, i + 4)
          [] c = "f" /\ Match(s, i, <<"f", "a", "l", "s", "e">>) ->
               ParseOk(PyFalse, i + 5)
          [] c = "0" -> ParseOk(PyInt(<<"0">>), i + 1)
          [] c \in Digits \ {"0"} ->
               LET e == DigitsEnd(s, i)
               IN  ParseOk(PyInt(SubSeq(s, i, e - 1)), e)
          [] OTHER -> ParseFail

\* json.loads(s): one value, surrounded by optional whitespace, and nothing
\* else; ok = FALSE stands for the exception json.loads raises
JsonLoads(s) ==
    LET v == ParseValue(s, SkipWs(s, 1))
    IN  IF ~v.ok THEN ParseFail
        ELSE IF SkipWs(s, v.pos) = Len(s) + 1 THEN v
        ELSE ParseFail

(***************************************************************************)
(* json.dumps(v, indent=2) for values whose strings hold letters only.     *)
(***************************************************************************)
RECURSIVE Serializable(_)
RECURSIVE AllSerializable(_, _)
AllSerializable(items, isDict) ==
    IF Len(items) = 0 THEN TRUE
    ELSE /\ Serializable(IF isDict THEN items[1].val ELSE items[1])
         /\ AllSerializable(Tail(items), isDict)

\* FALSE when json.dumps raises TypeError
Serializable(v) ==
    CASE v.t = "set"  -> FALSE
      [] v.t = "list" -> AllSerializable(v.items, FALSE)
      [] v.t = "dict" -> AllSerializable(v.items, TRUE)
      [] OTHER        -> TRUE

RECURSIVE Spaces(_)
Spaces(n) == IF n = 0 THEN <<>> ELSE <<" ">> \o Spaces(n - 1)

\* newline and the indentation of nesting level lvl
NewlineIndent(lvl) == <<"\n">> \o Spaces(2 * lvl)

Quoted(cs) == <<"\"">> \o cs \o <<"\"">>

RECURSIVE Dumps(_, _)
RECURSIVE DumpItems(_, _, _)
DumpItems(items, isDict, lvl) ==
    LET one == IF isDict
               THEN Quoted(items[1].k) \o <<":", " ">> \o Dumps(items[1].val, lvl)
               ELSE Dumps(items[1], lvl)
    IN  IF Len(items) = 1 THEN NewlineIndent(lvl) \o one
        ELSE NewlineIndent(lvl) \o one \o <<",">>
             \o DumpItems(Tail(items), isDict, lvl)

Dumps(v, lvl) ==
    CASE v.t = "str"  -> Quoted(v.s)
      [] v.t = "null" -> <<"n", "u", "l", "l">>
      [] v.t = "list" ->
           IF v.items = <<>> THEN <<"[", "]">>
           ELSE <<"[">> \o DumpItems(v.items, FALSE, lvl + 1)
                \o NewlineIndent(lvl) \o <<"]">>
      [] v.t = "dict" ->
           IF v.items = <<>> THEN <<"{", "}">>
           ELSE <<"{">> \o DumpItems(v.items, TRUE, lvl + 1)
                \o NewlineIndent(lvl) \o <<"}">>
      [] OTHER -> v.s

\* json.dumps(v, indent=2)
JsonDumps(v) == Dumps(v, 0)

(***************************************************************************)
(* command_map: the keys and the values as they are written in the table.  *)
(***************************************************************************)
\* 'create-project'
CreateProject ==
    <<"c", "r", "e", "a", "t", "e", "-", "p", "r", "o", "j", "e", "c", "t">>

\* 'create-story'
CreateStory ==
    <<"c", "r", "e", "a", "t", "e", "-", "s", "t", "o", "r", "y">>

\* 'create-task'
CreateTask ==
    <<"c", "r", "e", "a", "t", "e", "-", "t", "a", "s", "k">>

\* 'create-bug'
CreateBug ==
    <<"c", "r", "e", "a", "t", "e", "-", "b", "u", "g">>

\* 'create-sprint'
CreateSprint ==
    <<"c", "r", "e", "a", "t", "e", "-", "s", "p", "r", "i", "n", "t">>

\* 'start-sprint'
StartSprint ==
    <<"s", "t", "a", "r", "t", "-", "s", "p", "r", "i", "n", "t">>

\* 'show-backlog'
ShowBacklog ==
    <<"s", "h", "o", "w", "-", "b", "a", "c", "k", "l", "o", "g">>

\* 'xavier-help'
XavierHelp ==
    <<"x", "a", "v", "i", "e", "r", "-", "h", "e", "l", "p">>

\* 'xavier-update'
XavierUpdate ==
    <<"x", "a", "v", "i", "e", "r", "-", "u", "p", "d", "a", "t", "e">>

\* 'estimate-story'
EstimateStory ==
    <<"e", "s", "t", "i", "m", "a", "t", "e", "-", "s", "t", "o", "r", "y">>

\* 'set-story-points'
SetStoryPoints ==
    <<"s", "e", "t", "-", "s", "t", "o", "r", "y", "-", "p", "o", "i", "n", "t", "s">>

command_map ==
    (CreateProject :>
        <<"/", "c", "r", "e", "a", "t", "e", "-", "p", "r", "o", "j", "e", "c", "t">>)
    @@ (CreateStory :>
        <<"/", "c", "r", "e", "a", "t", "e", "-", "s", "t", "o", "r", "y">>)
    @@ (CreateTask :>
        <<"/", "c", "r", "e", "a", "t", "e", "-", "t", "a", "s", "k">>)
    @@ (CreateBug :>
        <<"/", "c", "r", "e", "a", "t", "e", "-", "b", "u", "g">>)
    @@ (CreateSprint :>
        <<"/", "c", "r", "e", "a", "t", "e", "-", "s", "p", "r", "i", "n", "t">>)
    @@ (StartSprint :>
        <<"/", "s", "t", "a", "r", "t", "-", "s", "p", "r", "i", "n", "t">>)
    @@ (ShowBacklog :>
        <<"/", "s", "h", "o", "w", "-", "b", "a", "c", "k", "l", "o", "g">>)
    @@ (XavierHelp :>
        <<"/", "x", "a", "v", "i", "e", "r", "-", "h", "e", "l", "p">>)
    @@ (XavierUpdate :>
        <<"/", "x", "a", "v", "i", "e", "r", "-", "u", "p", "d", "a", "t", "e">>)
    @@ (EstimateStory :>
        <<"/", "e", "s", "t", "i", "m", "a", "t", "e", "-", "s", "t", "o", "r", "y">>)
    @@ (SetStoryPoints :>
        <<"/", "s", "e", "t", "-", "s", "t", "o", "r", "y", "-", "p", "o", "i", "n", "t", "s">>)

RecognizedNames == DOMAIN command_map

\* command.replace('/', '')
StripSlashes(command) == SelectSeq(command, LAMBDA c : c # "/")

\* command_map.get(command.replace('/', ''), f"/{command}")
ResolveCommand(command) ==
    LET key == StripSlashes(command)
    IN  IF key \in DOMAIN command_map THEN command_map[key]
        ELSE <<"/">> \o command

(***************************************************************************)
(* Argument parsing: args = {} unless sys.argv[2:] joins to text that      *)
(* json.loads accepts.  av is sys.argv, av[1] the script name.             *)
(***************************************************************************)
\* variant: json.loads(sys.argv[2]), the later arguments are not joined on
ParsedArgsFirstOnly(av) ==
    IF Len(av) > 2
    THEN LET r == JsonLoads(av[3])
         IN  IF r.ok THEN r.val ELSE EmptyDict
    ELSE EmptyDict

ParsedArgs(av) ==
    IF Len(av) > 2
    THEN LET r == JsonLoads(Join(SubSeq(av, 3, Len(av))))
         IN  IF r.ok THEN r.val ELSE EmptyDict
    ELSE EmptyDict

(***************************************************************************)
(* The printed lines.                                                      *)
(***************************************************************************)
ImportMessage == <<"Error: Xavier Framework not properly installed">>

UsageMessage == <<"Usage: xavier_bridge.py <command> [arguments]">>

SuccessMessage == <<"<U+2705> Command executed successfully">>

ErrorPrefix == <<"<U+274C> Error: ">>

\* f"<U+274C> Error: {text}"
ErrorLine(text) == ErrorPrefix \o text

UnknownError == PyStr(<<"Unknown error">>)

KeySuccess == <<"s", "u", "c", "c", "e", "s", "s">>

KeyResult == <<"r", "e", "s", "u", "l", "t">>

KeyError == <<"e", "r", "r", "o", "r">>

\* str(e) of the AttributeError that r.get raises when r has no get
NoGetText(r) ==
    IF r.t = "null" THEN <<"'NoneType' object has no attribute 'get'">>
    ELSE <<"'list' object has no attribute 'get'">>

\* str(e) of the TypeError json.dumps raises
NotSerializableText == <<"Object of type set is not JSON serializable">>

Printed(line) == [raised |-> FALSE, text |-> line]

Raised(text) == [raised |-> TRUE, text |-> text]

\* variant: result.get('error') without the 'Unknown error' default
TryFormatNoDefault(r) ==
    IF ~IsMapping(r) THEN Raised(NoGetText(r))
    ELSE IF Truthy(Get(r, KeySuccess, PyNone))
    THEN IF HasKey(r, KeyResult)
         THEN IF Serializable(Get(r, KeyResult, PyNone))
              THEN Printed(JsonDumps(Get(r, KeyResult, PyNone)))
              ELSE Raised(NotSerializableText)
         ELSE Printed(SuccessMessage)
    ELSE Printed(ErrorLine(Str(Get(r, KeyError, PyNone))))

\* The if/else of the try block on the value r that execute returned: the
\* line one of its three print calls prints, or the text of the exception
\* that r.get or json.dumps raises before anything is printed.
TryFormat(r) ==
    IF ~IsMapping(r) THEN Raised(NoGetText(r))
    ELSE IF Truthy(Get(r, KeySuccess, PyNone))
    THEN IF HasKey(r, KeyResult)
         THEN IF Serializable(Get(r, KeyResult, PyNone))
              THEN Printed(JsonDumps(Get(r, KeyResult, PyNone)))
              ELSE Raised(NotSerializableText)
         ELSE Printed(SuccessMessage)
    ELSE Printed(ErrorLine(Str(Get(r, KeyError, UnknownError))))

(***************************************************************************)
(* Inputs: the process arguments and the behaviour of the external         *)
(* XavierCommands.                                                         *)
(***************************************************************************)
MaxLeadingSlashes == 1

MaxExtraArgs == 2

Script == <<"xavier_bridge.py">>

Foo == <<"f", "o", "o">>

UnrecognizedNames == {<<>>, Foo}

RECURSIVE Slashes(_)
Slashes(n) == IF n = 0 THEN <<>> ELSE <<"/">> \o Slashes(n - 1)

\* name with a slash put after its first p characters (p = 0: none)
WithSlashAfter(name, p) ==
    IF p = 0 THEN name
    ELSE SubSeq(name, 1, p) \o <<"/">> \o SubSeq(name, p + 1, Len(name))

\* the command names tried: every name, with leading slashes and with one
\* slash inside or at the end
Commands ==
    UNION { { Slashes(k) \o WithSlashAfter(n, p) :
                k \in 0..MaxLeadingSlashes, p \in 0..Len(n) } :
            n \in RecognizedNames \cup UnrecognizedNames }

FewCommands == {Foo, <<"/">> \o CreateStory}

\* the words sys.argv[2:] is made of
ArgWords ==
    { <<"{", "\"", "a", "\"", ":">>,
      <<"1", "}">>,
      <<"{", "}">>,
      <<"[", "1", ",">>,
      <<"1", "]">>,
      <<"1">>,
      <<"\"", "a">>,
      <<"b", "\"">>,
      <<"n", "u", "l", "l">> }

RECURSIVE SeqsUpTo(_, _)
\* the sequences over S of length 0..n
SeqsUpTo(S, n) ==
    IF n = 0 THEN {<<>>}
    ELSE LET shorter == SeqsUpTo(S, n - 1)
         IN  shorter \cup { Append(q, e) : q \in shorter, e \in S }

Extras == SeqsUpTo(ArgWords, MaxExtraArgs)

FewExtras == {<<>>, << <<"{", "\"", "a", "\"", ":">>, <<"1", "}">> >>}

\* sys.argv
Argvs ==
    {<<Script>>}
    \cup { <<Script, c>> \o e : c \in Commands, e \in FewExtras }
    \cup { <<Script, c>> \o e : c \in FewCommands, e \in Extras }

\* the mapping {"a": 1}
DictA1 == PyDict(<<KV(<<"a">>, PyInt(<<"1">>))>>)

SuccessValues == {PyTrue, PyFalse, PyInt(<<"1">>), PyNone}

ResultValues == {DictA1, PySet, PyNone}

ErrorValues == {PyStr(<<"bad input">>)}

Field(k, v) == <<KV(k, v)>>

\* the mappings execute returns: each of the three keys present or not
ReturnedMappings ==
    { PyDict(s \o r \o e) :
        s \in {<<>>} \cup { Field(KeySuccess, v) : v \in SuccessValues },
        r \in {<<>>} \cup { Field(KeyResult, v) : v \in ResultValues },
        e \in {<<>>} \cup { Field(KeyError, v) : v \in ErrorValues } }

\* what execute returns: a mapping, or something that is none
ReturnValues == ReturnedMappings \cup {PyNone, PyList(<<>>)}

\* str(e) of an exception XavierCommands raises
RaisedTexts == {<<"boom">>}

VARIABLES
    import_ok,       \* whether src.commands.xavier_commands can be imported
    argv,            \* sys.argv; argv[1] is the script name
    pc,              \* the statement the run is at
    command,         \* sys.argv[1]
    args,
    xavier_command,
    xavier,          \* TRUE once XavierCommands(os.getcwd()) has returned
    result,          \* what xavier.execute returned
    output,          \* the lines printed, in order
    exit_status,     \* -1 while the process runs
    steps,           \* the steps taken, in order
    constructed,     \* number of calls of XavierCommands(...)
    raised,          \* str(e) of the exceptions raised inside the try block
    calls            \* the (command, args) pairs handed to execute

vars == <<import_ok, argv, pc, command, args, xavier_command, xavier, result,
          output, exit_status, steps, constructed, raised, calls>>

Init ==
    /\ import_ok \in BOOLEAN
    /\ argv \in Argvs
    /\ pc = "import"
    /\ command = <<>>
    /\ args = EmptyDict
    /\ xavier_command = <<>>
    /\ xavier = FALSE
    /\ result = PyNone
    /\ output = <<>>
    /\ exit_status = -1
    /\ steps = <<>>
    /\ constructed = 0
    /\ raised = <<>>
    /\ calls = <<>>

\* print(line); the process ends with the given status
PrintAndExit(line, status) ==
    /\ output' = Append(output, line)
    /\ exit_status' = status
    /\ pc' = "done"

\* variant: the handler does not catch the exception; the traceback goes to
\* stderr and the process ends with status 1
ExceptUncaught(text) ==
    /\ raised' = Append(raised, text)
    /\ output' = output
    /\ exit_status' = 1
    /\ pc' = "done"

\* except Exception as e: print(f"<U+274C> Error: {str(e)}"); main returns
Except(text) ==
    /\ raised' = Append(raised, text)
    /\ PrintAndExit(ErrorLine(text), 0)

\* variant: sys.exit() without a status after the import diagnostic
ImportExitZero ==
    /\ pc = "import"
    /\ steps' = Append(steps, "import")
    /\ IF import_ok
       THEN /\ pc' = "usage"
            /\ UNCHANGED <<output, exit_status>>
       ELSE PrintAndExit(ImportMessage, 0)
    /\ UNCHANGED <<import_ok, argv, command, args, xavier_command, xavier,
                   result, constructed, raised, calls>>

\* try: from ... import XavierCommands / except ImportError: print, exit(1)
Import ==
    /\ pc = "import"
    /\ steps' = Append(steps, "import")
    /\ IF import_ok
       THEN /\ pc' = "usage"
            /\ UNCHANGED <<output, exit_status>>
       ELSE PrintAndExit(ImportMessage, 1)
    /\ UNCHANGED <<import_ok, argv, command, args, xavier_command, xavier,
                   result, constructed, raised, calls>>

\* variant: the executor is built before the usage check
CheckUsageAfterConstruct ==
    /\ pc = "usage"
    /\ steps' = Append(steps, "usage")
    /\ constructed' = constructed + 1
    /\ IF Len(argv) < 2
       THEN PrintAndExit(UsageMessage, 1)
       ELSE /\ pc' = "parse"
            /\ UNCHANGED <<output, exit_status>>
    /\ UNCHANGED <<import_ok, argv, command, args, xavier_command, xavier,
                   result, raised, calls>>

\* if len(sys.argv) < 2: print usage, exit(1)
CheckUsage ==
    /\ pc = "usage"
    /\ steps' = Append(steps, "usage")
    /\ IF Len(argv) < 2
       THEN PrintAndExit(UsageMessage, 1)
       ELSE /\ pc' = "parse"
            /\ UNCHANGED <<output, exit_status>>
    /\ UNCHANGED <<import_ok, argv, command, args, xavier_command, xavier,
                   result, constructed, raised, calls>>

\* command = sys.argv[1]; args = {}; the guarded json.loads
ParseArguments ==
    /\ pc = "parse"
    /\ steps' = Append(steps, "parse")
    /\ command' = argv[2]
    /\ args' = ParsedArgs(argv)
    /\ pc' = "resolve"
    /\ UNCHANGED <<import_ok, argv, xavier_command, xavier, result, output,
                   exit_status, constructed, raised, calls>>

\* xavier_command = command_map.get(...)
Resolve ==
    /\ pc = "resolve"
    /\ steps' = Append(steps, "resolve")
    /\ xavier_command' = ResolveCommand(command)
    /\ pc' = "construct"
    /\ UNCHANGED <<import_ok, argv, command, args, xavier, result, output,
                   exit_status, constructed, raised, calls>>

\* xavier = XavierCommands(os.getcwd()), inside the try block
Construct ==
    /\ pc = "construct"
    /\ steps' = Append(steps, "construct")
    /\ constructed' = constructed + 1
    /\ \/ /\ xavier' = TRUE
          /\ pc' = "execute"
          /\ UNCHANGED <<output, exit_status, raised>>
       \/ \E text \in RaisedTexts :
             /\ Except(text)
             /\ UNCHANGED xavier
    /\ UNCHANGED <<import_ok, argv, command, args, xavier_command, result,
                   calls>>

\* variant: a call of execute that raises is tried a second time
ExecuteRetry ==
    /\ pc = "execute"
    /\ steps' = Append(steps, "execute")
    /\ LET call == [command |-> xavier_command, args |-> args]
       IN  \/ \E r \in ReturnValues :
                /\ calls' \in {Append(calls, call), calls \o <<call, call>>}
                /\ result' = r
                /\ pc' = "format"
                /\ UNCHANGED <<output, exit_status, raised>>
           \/ \E text \in RaisedTexts :
                /\ calls' = calls \o <<call, call>>
                /\ Except(text)
                /\ UNCHANGED result
    /\ UNCHANGED <<import_ok, argv, command, args, xavier_command, xavier,
                   constructed>>

\* result = xavier.execute(xavier_command, args), inside the try block
Execute ==
    /\ pc = "execute"
    /\ steps' = Append(steps, "execute")
    /\ calls' = Append(calls, [command |-> xavier_command, args |-> args])
    /\ \/ \E r \in ReturnValues :
             /\ result' = r
             /\ pc' = "format"
             /\ UNCHANGED <<output, exit_status, raised>>
       \/ \E text \in RaisedTexts :
             /\ Except(text)
             /\ UNCHANGED result
    /\ UNCHANGED <<import_ok, argv, command, args, xavier_command, xavier,
                   constructed>>

\* the if/else over result and the except handler around it
Format ==
    /\ pc = "format"
    /\ steps' = Append(steps, "output")
    /\ LET t == TryFormat(result)
       IN  IF t.raised THEN Except(t.text)
           ELSE /\ PrintAndExit(t.text, 0)
                /\ UNCHANGED raised
    /\ UNCHANGED <<import_ok, argv, command, args, xavier_command, xavier,
                   result, constructed, calls>>

Next ==
    \/ Import
    \/ CheckUsage
    \/ ParseArguments
    \/ Resolve
    \/ Construct
    \/ Execute
    \/ Format

Spec == Init /\ [][Next]_vars

(***************************************************************************)
(* Properties.                                                             *)
(***************************************************************************)
RECURSIVE LStripSlashes(_)
\* s without its leading slashes: the name the properties speak of
LStripSlashes(s) ==
    IF Len(s) > 0 /\ s[1] = "/" THEN LStripSlashes(Tail(s)) ELSE s

\* the canonical identifiers of the table
CanonicalIdentifiers == { command_map[k] : k \in DOMAIN command_map }

\* sys.argv[2:]
ExtraArgs == SubSeq(argv, 3, Len(argv))

\* main() got past the two startup checks
PastUsage == pc \notin {"import", "usage"} /\ Len(steps) > 2

\* the order of the steps of a complete run
StepOrder ==
    <<"import", "usage", "parse", "resolve", "construct", "execute", "output">>

\* C1: an unrecognized (non-empty) command name x, with or without leading
\* slashes, reaches execute as '/' followed by x without its leading slashes.
C1_UnrecognizedGetsOneSlash ==
    \A i \in 1..Len(calls) :
        /\ LStripSlashes(command) \notin RecognizedNames
        /\ LStripSlashes(command) # <<>>
        => calls[i].command = <<"/">> \o LStripSlashes(command)

\* C2: each recognized name, with or without leading slashes, resolves to
\* its canonical identifier, and only leading slashes are stripped before the
\* lookup: a command that is no recognized name after that is not resolved
\* to an identifier of the table.
C2_OnlyLeadingSlashStripped ==
    PastUsage /\ pc # "parse" /\ pc # "resolve" =>
        /\ LStripSlashes(command) \in RecognizedNames
              => xavier_command = <<"/">> \o LStripSlashes(command)
        /\ LStripSlashes(command) \notin RecognizedNames
              => xavier_command \notin CanonicalIdentifiers

\* C3: the args handed to execute is always a mapping.
C3_ArgsIsMapping ==
    \A i \in 1..Len(calls) : IsMapping(calls[i].args)

\* C4: args is {} without extra arguments, the decoded value when the join of
\* the extra arguments is valid JSON, and {} when it is malformed; the
\* parse prints nothing, ends nothing, and the executor is built next.
C4_ArgsParsing ==
    /\ PastUsage /\ pc # "parse" =>
          /\ Len(argv) = 2 => args = EmptyDict
          /\ Len(argv) > 2 /\ JsonLoads(Join(ExtraArgs)).ok
                => args = JsonLoads(Join(ExtraArgs)).val
          /\ Len(argv) > 2 /\ ~JsonLoads(Join(ExtraArgs)).ok
                => args = EmptyDict
          /\ ExtraArgs = << <<"{", "\"", "a", "\"", ":">>, <<"1", "}">> >>
                => args = DictA1
          /\ ExtraArgs = << <<"\"", "a">>, <<"b", "\"">> >>
                => args = PyStr(<<"a", " ", "b">>)
          /\ ExtraArgs = << <<"1">>, <<"1">> >> => args = EmptyDict
          /\ \A i \in 1..Len(calls) : calls[i].args = args
    /\ pc \in {"resolve", "construct"} =>
          output = <<>> /\ exit_status = -1 /\ raised = <<>>
    /\ PastUsage /\ pc = "done" => constructed = 1

C4_Witness ==
    /\ pc = "done"
    /\ Len(argv) > 2
    /\ ~JsonLoads(Join(ExtraArgs)).ok
    /\ Len(calls) = 1
    /\ calls[1].args = EmptyDict

\* C5: a finished run has exit status 1 exactly when the import failed or no
\* command was given, and exit status 0 otherwise, whatever the executor did.
C5_ExitStatus ==
    /\ pc # "done" => exit_status = -1
    /\ pc = "done" =>
          /\ exit_status \in {0, 1}
          /\ exit_status = 1 <=> (~import_ok \/ Len(argv) < 2)

C5_Witness ==
    /\ pc = "done"
    /\ exit_status = 0
    /\ raised # <<>>
    /\ Len(calls) = 1

\* C6: an exception raised by the constructor, by execute or while the result
\* is formatted ends the run with exactly one line, the error prefix followed
\* by the exception's text, and with a normal exit.
C6_RaisedIsCaught ==
    /\ raised # <<>> =>
          /\ pc = "done"
          /\ Len(raised) = 1
          /\ output = <<ErrorPrefix \o raised[1]>>
          /\ exit_status = 0
    /\ pc = "done" /\ Len(steps) = 7 /\ ~IsMapping(result) => raised # <<>>
    /\ pc = "done" /\ Len(steps) = 7 /\ IsMapping(result)
          /\ Get(result, KeySuccess, PyNone) = PyTrue
          /\ Get(result, KeyResult, PyNone) = PySet
          => raised = <<NotSerializableText>>

C6_Witness ==
    /\ pc = "done"
    /\ IsMapping(result)
    /\ Get(result, KeyResult, PyNone) = PySet
    /\ raised = <<NotSerializableText>>
    /\ output = <<ErrorLine(NotSerializableText)>>

\* C7: without a command argument main prints the usage text and exits with
\* status 1; the executor is neither built nor called, and neither the
\* argument parsing nor the alias resolution runs.
C7_UsageError ==
    Len(argv) < 2 =>
        /\ constructed = 0
        /\ calls = <<>>
        /\ ~xavier
        /\ \A i \in 1..Len(steps) : steps[i] \in {"import", "usage"}
        /\ pc = "done" /\ import_ok =>
              /\ output = <<UsageMessage>>
              /\ exit_status = 1

C7_Witness ==
    /\ Len(argv) < 2
    /\ pc = "done"
    /\ steps = <<"import", "usage">>
    /\ output = <<UsageMessage>>

\* the run formatted the mapping that execute returned
FormattedMapping == pc = "done" /\ Len(steps) = 7 /\ IsMapping(result)

\* C8 as stated: success true and 'result' present -> its JSON rendering;
\* success true and no 'result' -> the success message; success false or
\* absent -> the error line with the 'error' field or 'Unknown error'.
C8_ThreeWayRule ==
    FormattedMapping =>
        LET success == Get(result, KeySuccess, PyFalse)
        IN  /\ Len(output) = 1
            /\ success = PyTrue /\ HasKey(result, KeyResult)
                  => output[1] = JsonDumps(Get(result, KeyResult, PyNone))
            /\ success = PyTrue /\ ~HasKey(result, KeyResult)
                  => output[1] = SuccessMessage
            /\ success = PyFalse
                  => output[1] =
                        ErrorLine(Str(Get(result, KeyError, UnknownError)))

\* C8 amended: as above, but a 'result' that json.dumps cannot serialize
\* gives the error line with the text of the TypeError instead of a
\* rendering.
C8_ThreeWayRuleSerializable ==
    FormattedMapping =>
        LET success == Get(result, KeySuccess, PyFalse)
            value   == Get(result, KeyResult, PyNone)
        IN  /\ Len(output) = 1
            /\ success = PyTrue /\ HasKey(result, KeyResult)
                  => output[1] = IF Serializable(value) THEN JsonDumps(value)
                                 ELSE ErrorLine(NotSerializableText)
            /\ success = PyTrue /\ ~HasKey(result, KeyResult)
                  => output[1] = SuccessMessage
            /\ success = PyFalse
                  => output[1] =
                        ErrorLine(Str(Get(result, KeyError, UnknownError)))
            /\ result = PyDict(Field(KeySuccess, PyTrue) \o Field(KeyResult, DictA1))
                  => output[1] = <<"{", "\n", " ", " ", "\"", "a", "\"", ":",
                                   " ", "1", "\n", "}">>
            /\ result = PyDict(Field(KeySuccess, PyFalse))
                  => output[1] = <<"<U+274C> Error: ", "Unknown error">>

C8_Witness ==
    /\ FormattedMapping
    /\ result = PyDict(Field(KeySuccess, PyTrue) \o Field(KeyResult, DictA1))
    /\ output = <<JsonDumps(DictA1)>>

\* C9: the command handed to execute never has an empty name.
C9_CommandNotEmpty ==
    \A i \in 1..Len(calls) :
        /\ command # <<>>
        /\ StripSlashes(calls[i].command) # <<>>

\* C10: the steps run in the fixed order, the executor is built at most once
\* and called at most once, and a finished run has printed exactly one
\* message, of one of the five kinds.
C10_OrderAndSingleOutput ==
    /\ Len(steps) <= Len(StepOrder)
    /\ steps = SubSeq(StepOrder, 1, Len(steps))
    /\ constructed <= 1
    /\ Len(calls) <= 1
    /\ pc # "done" => output = <<>>
    /\ pc = "done" =>
          /\ Len(output) = 1
          /\ \/ output[1] \in {ImportMessage, UsageMessage, SuccessMessage}
             \/ SubSeq(output[1], 1, 1) = ErrorPrefix
             \/ /\ IsMapping(result)
                /\ HasKey(result, KeyResult)
                /\ output[1] = JsonDumps(Get(result, KeyResult, PyNone))

C10_Witness ==
    /\ pc = "done"
    /\ steps = StepOrder
    /\ constructed = 1
    /\ Len(calls) = 1
    /\ Len(output) = 1

====
